---- MODULE Spec2Model ----
(***************************************************************************)
(* Model of the watermark-removal HTTP service (server.js).                *)
(*                                                                         *)
(* Strings are sequences of tokens.  A string that a client or the model   *)
(* controls (a filename, a reply text, base64 data) is spelled character   *)
(* by character; a literal of server.js (a prompt, an error message, a     *)
(* MIME type) is one token, because the code never looks inside it.        *)
(* Buffers are sequences of byte values.                                   *)
(***************************************************************************)
EXTENDS Integers, Sequences, FiniteSets, TLC

\* ------------------------------------------------------------------ bounds
\* number of requests the concurrent specification lets be in flight
NReq == 2
\* largest value Date.now() takes
MaxTime == 1

\* longest stem of a generated upload filename
MaxStem == 4

\* ----------------------------------------------------------------- strings
LowerLetters ==
    << "a","b","c","d","e","f","g","h","i","j","k","l","m",
       "n","o","p","q","r","s","t","u","v","w","x","y","z" >>
UpperLetters ==
    << "A","B","C","D","E","F","G","H","I","J","K","L","M",
       "N","O","P","Q","R","S","T","U","V","W","X","Y","Z" >>
Digits == << "0","1","2","3","4","5","6","7","8","9" >>

Range(s) == { s[i] : i \in DOMAIN s }

IndexOf(s, c) == CHOOSE i \in DOMAIN s : s[i] = c

\* String.prototype.toLowerCase, one character
LowerChar(c) ==
    IF c \in Range(UpperLetters) THEN LowerLetters[IndexOf(UpperLetters, c)] ELSE c

toLowerCase(s) == [ i \in DOMAIN s |-> LowerChar(s[i]) ]

\* String.prototype.includes
includes(s, sub) ==
    \E i \in 0..(Len(s) - Len(sub)) : SubSeq(s, i + 1, i + Len(sub)) = sub

EndsWith(s, suf) ==
    /\ Len(suf) <= Len(s)
    /\ SubSeq(s, Len(s) - Len(suf) + 1, Len(s)) = suf

\* a JavaScript value used as a condition: '' is falsy, every other string truthy
Truthy(s) == s # << >>

\* -------------------------------------------------------------------- path
\* index of the last character that is not a trailing '/', 0 when there is none
PathEnd(p) ==
    LET ns == { i \in DOMAIN p : p[i] # "/" }
    IN  IF ns = {} THEN 0 ELSE CHOOSE i \in ns : \A j \in ns : j <= i

\* index of the first character of the last path component
PathStart(p) ==
    LET e  == PathEnd(p)
        sl == { i \in 1..e : p[i] = "/" }
    IN  IF sl = {} THEN 1 ELSE 1 + (CHOOSE i \in sl : \A j \in sl : j <= i)

\* the last path component, trailing slashes dropped
Component(p) == SubSeq(p, PathStart(p), PathEnd(p))

\* path.extname (POSIX)
extname(p) ==
    LET e    == PathEnd(p)
        st   == PathStart(p)
        dots == { i \in st..e : p[i] = "." }
        d    == CHOOSE i \in dots : \A j \in dots : j <= i
    IN  IF e = 0 \/ dots = {} THEN << >>
        ELSE IF d = st THEN << >>
        ELSE IF p[st] = "." /\ d = e /\ d = st + 1 THEN << >>
        ELSE SubSeq(p, d, e)

\* path.basename(p, suffix) (POSIX)
basename(p, suffix) ==
    LET comp == Component(p)
    IN  IF suffix # << >> /\ Len(suffix) <= Len(p)
        THEN IF suffix = p THEN << >>
             ELSE IF EndsWith(comp, suffix) /\ Len(comp) > Len(suffix)
                  THEN SubSeq(comp, 1, Len(comp) - Len(suffix))
                  ELSE comp
        ELSE comp

\* ------------------------------------------------------- filename helpers
IsNameChar(c) ==
    c \in Range(LowerLetters) \cup Range(UpperLetters) \cup Range(Digits) \cup {"-", "_"}

\* ReplaceUnsafe replacing nothing
ReplaceNothing(s) == s

\* baseName.replace(/[^a-zA-Z0-9-_]/g, '-')
ReplaceUnsafe(s) == [ i \in DOMAIN s |-> IF IsNameChar(s[i]) THEN s[i] ELSE "-" ]

\* baseName.replace(/-+/g, '-')
RECURSIVE CollapseDashes(_)
CollapseDashes(s) ==
    IF Len(s) <= 1 THEN s
    ELSE IF s[1] = "-" /\ s[2] = "-" THEN CollapseDashes(Tail(s))
    ELSE << s[1] >> \o CollapseDashes(Tail(s))

\* baseName.replace(/^-+|-+$/g, '')
TrimDashes(s) ==
    LET keep == { i \in DOMAIN s : s[i] # "-" }
    IN  IF keep = {} THEN << >>
        ELSE SubSeq(s, CHOOSE i \in keep : \A j \in keep : i <= j,
                       CHOOSE i \in keep : \A j \in keep : j <= i)

sanitizeFilename(filename) ==
    LET ext  == extname(filename)
        b0   == basename(filename, ext)
        b1   == TrimDashes(CollapseDashes(ReplaceUnsafe(b0)))
        base == IF Truthy(b1) THEN b1 ELSE << "i","m","a","g","e" >>
    IN  base \o ext

Lit(x) == << x >>

DotPng  == << ".","p","n","g" >>
DotJpg  == << ".","j","p","g" >>
DotJpeg == << ".","j","p","e","g" >>

getMimeType(filename) ==
    LET ext == toLowerCase(extname(filename))
    IN  IF ext = DotPng THEN Lit("image/png")
        ELSE IF ext \in {DotJpg, DotJpeg} THEN Lit("image/jpeg")
        ELSE Lit("image/jpeg")

validTypes ==
    { DotPng, DotJpg, DotJpeg,
      << ".","w","e","b","p" >>, << ".","s","v","g" >>, << ".","g","i","f" >>,
      << ".","b","m","p" >>, << ".","t","i","f","f" >>, << ".","t","i","f" >>,
      << ".","a","v","i","f" >> }

\* isValidImageType without the toLowerCase
isValidImageTypeCaseSensitive(filename) == extname(filename) \in validTypes

isValidImageType(filename) == toLowerCase(extname(filename)) \in validTypes

\* ------------------------------------------------------------------ base64
B64Alphabet ==
    UpperLetters \o LowerLetters \o Digits \o << "+", "/" >>

\* value of one base64 character ('-' and '_' are the URL-safe forms), -1 for
\* a character the decoder skips
B64Index(c) ==
    IF c \in Range(B64Alphabet) THEN IndexOf(B64Alphabet, c) - 1
    ELSE IF c = "-" THEN 62
    ELSE IF c = "_" THEN 63
    ELSE -1

B64Char(n) == B64Alphabet[n + 1]

\* buf.toString('base64')
RECURSIVE toBase64(_)
toBase64(b) ==
    IF Len(b) = 0 THEN << >>
    ELSE IF Len(b) = 1 THEN
        << B64Char(b[1] \div 4), B64Char((b[1] % 4) * 16), "=", "=" >>
    ELSE IF Len(b) = 2 THEN
        << B64Char(b[1] \div 4), B64Char((b[1] % 4) * 16 + b[2] \div 16),
           B64Char((b[2] % 16) * 4), "=" >>
    ELSE
        << B64Char(b[1] \div 4), B64Char((b[1] % 4) * 16 + b[2] \div 16),
           B64Char((b[2] % 16) * 4 + b[3] \div 64), B64Char(b[3] % 64) >>
        \o toBase64(SubSeq(b, 4, Len(b)))

\* the sextets of a base64 string: it ends at the first '=', and characters
\* outside the alphabet are skipped
RECURSIVE Sextets(_)
Sextets(s) ==
    IF Len(s) = 0 \/ s[1] = "=" THEN << >>
    ELSE IF B64Index(s[1]) < 0 THEN Sextets(Tail(s))
    ELSE << B64Index(s[1]) >> \o Sextets(Tail(s))

RECURSIVE SextetsToBytes(_)
SextetsToBytes(q) ==
    IF Len(q) <= 1 THEN << >>
    ELSE IF Len(q) = 2 THEN << q[1] * 4 + q[2] \div 16 >>
    ELSE IF Len(q) = 3 THEN
        << q[1] * 4 + q[2] \div 16, (q[2] % 16) * 16 + q[3] \div 4 >>
    ELSE
        << q[1] * 4 + q[2] \div 16, (q[2] % 16) * 16 + q[3] \div 4,
           (q[3] % 4) * 64 + q[4] >>
        \o SextetsToBytes(SubSeq(q, 5, Len(q)))

\* Buffer.from(s, 'base64')
fromBase64(s) == SextetsToBytes(Sextets(s))

\* ------------------------------------------------------------------ images
\* What the image library decodes a buffer to.  A raster is a list of runs
\* of equal pixels; a pixel is one value per channel.
Run(n, px) == [ n |-> n, px |-> px ]

NoRaster == [ ok |-> FALSE, hasAlpha |-> FALSE, width |-> 0, height |-> 0, runs |-> << >> ]

Raster(alpha, w, h, runs) ==
    [ ok |-> TRUE, hasAlpha |-> alpha, width |-> w, height |-> h, runs |-> runs ]

\* buffers of the model's catalogue
ImgOpaque    == << 10 >>   \* a colourful picture without alpha
ImgAlpha     == << 20 >>   \* a picture with an alpha channel
ImgClean     == << 30 >>   \* a colourful picture, same shape as the uploads
ImgWide      == << 31 >>   \* a colourful picture, aspect ratio off by more than 0.2
ImgWider     == << 32 >>   \* a colourful picture, aspect ratio off by more than 0.5
ImgWhite     == << 40 >>   \* every pixel white
ImgNearWhite == << 50 >>   \* 199 pixels of 200 white
ImgPale      == << 60 >>   \* 196 of 200 white, the rest off-white
ImgGarbage   == << 0 >>    \* not an image

sharpDecode(b) ==
    IF b = ImgOpaque THEN
        Raster(FALSE, 20, 10, << Run(100, << 200, 30, 30 >>), Run(100, << 20, 20, 220 >>) >>)
    ELSE IF b = ImgAlpha THEN
        Raster(TRUE, 20, 10, << Run(100, << 200, 30, 30, 255 >>), Run(100, << 0, 0, 0, 0 >>) >>)
    ELSE IF b = ImgClean THEN
        Raster(FALSE, 20, 10, << Run(100, << 180, 40, 40 >>), Run(100, << 30, 30, 200 >>) >>)
    ELSE IF b = ImgWide THEN
        Raster(FALSE, 25, 8, << Run(100, << 180, 40, 40 >>), Run(100, << 30, 30, 200 >>) >>)
    ELSE IF b = ImgWider THEN
        Raster(FALSE, 40, 5, << Run(100, << 180, 40, 40 >>), Run(100, << 30, 30, 200 >>) >>)
    ELSE IF b = ImgWhite THEN
        Raster(FALSE, 20, 10, << Run(200, << 255, 255, 255 >>) >>)
    ELSE IF b = ImgNearWhite THEN
        Raster(FALSE, 20, 10, << Run(199, << 255, 255, 255 >>), Run(1, << 0, 0, 0 >>) >>)
    ELSE IF b = ImgPale THEN
        Raster(FALSE, 20, 10, << Run(196, << 255, 255, 255 >>), Run(4, << 255, 255, 230 >>) >>)
    ELSE NoRaster

\* sharp(b).flatten({background: white}).png().toBuffer()
sharpFlattenPng(b) == << 1 >> \o b

\* sharp(p).ensureAlpha().joinChannel(alpha of o, fitted by `fit`).png().toBuffer()
sharpJoinAlpha(p, o, fit) == << fit >> \o p \o o

\* sums over the runs of a raster
RECURSIVE SumRuns(_, _)
SumRuns(runs, c) ==
    IF runs = << >> THEN 0
    ELSE runs[1].n * runs[1].px[c] + SumRuns(Tail(runs), c)

RECURSIVE SumChannels(_, _)
SumChannels(runs, c) ==
    IF c = 0 THEN 0 ELSE SumRuns(runs, c) + SumChannels(runs, c - 1)

RECURSIVE CountPixels(_)
CountPixels(runs) ==
    IF runs = << >> THEN 0 ELSE runs[1].n + CountPixels(Tail(runs))

RECURSIVE CountWhite(_)
CountWhite(runs) ==
    IF runs = << >> THEN 0
    ELSE (IF runs[1].px[1] > 230 /\ runs[1].px[2] > 230 /\ runs[1].px[3] > 230
          THEN runs[1].n ELSE 0) + CountWhite(Tail(runs))

\* n * (n - 1) * variance of channel c, as the sum over pairs of runs
SpreadOf(runs, c) ==
    LET pairs == { ij \in (DOMAIN runs) \X (DOMAIN runs) : ij[1] < ij[2] }
        term(ij) == runs[ij[1]].n * runs[ij[2]].n
                    * (runs[ij[1]].px[c] - runs[ij[2]].px[c])
                    * (runs[ij[1]].px[c] - runs[ij[2]].px[c])
        RECURSIVE Sum(_)
        Sum(S) == IF S = {} THEN 0
                  ELSE LET x == CHOOSE y \in S : TRUE IN term(x) + Sum(S \ {x})
    IN  Sum(pairs)

\* isImageMostlyWhite; the thresholds are in thousandths (990 for 0.99)
isImageMostlyWhite(imageBuffer, whiteThreshold, avgBrightnessThreshold) ==
    LET img      == sharpDecode(imageBuffer)
        runs     == img.runs
        channels == Len(runs[1].px)
        total    == CountPixels(runs)
        low      == \A c \in 1..channels :
                        ~ (SpreadOf(runs, c) > 25 * 25 * total * (total - 1))
        bright   == SumChannels(runs, channels) * 1000
                        > avgBrightnessThreshold * 255 * channels * total
        white    == CountWhite(runs) * 1000 > whiteThreshold * total
    IN  IF ~ img.ok THEN FALSE
        ELSE white \/ (bright /\ low)

\* the fit reapplyTransparency chooses: 2 fill, 3 contain on the alpha channel,
\* 4 contain on the whole original
AlphaFit(pm, om) ==
    LET cross == pm.width * om.height - pm.height * om.width
        diff  == IF cross < 0 THEN 0 - cross ELSE cross
        den   == om.width * om.height
    IN  IF diff * 2 > den THEN 4
        ELSE IF diff * 5 > den THEN 3
        ELSE 2

reapplyTransparency(processedImageBuffer, originalImageBuffer) ==
    LET pm == sharpDecode(processedImageBuffer)
        om == sharpDecode(originalImageBuffer)
    IN  IF ~ pm.ok \/ ~ om.ok THEN processedImageBuffer
        ELSE IF ~ om.hasAlpha THEN processedImageBuffer
        ELSE sharpJoinAlpha(processedImageBuffer, originalImageBuffer, AlphaFit(pm, om))

\* convertToSupportedFormat; threw is TRUE when it throws 'Failed to convert image'
ConvertResult(buffer, filename, converted, hasTransparency, originalBuffer, threw) ==
    [ buffer |-> buffer, filename |-> filename, converted |-> converted,
      hasTransparency |-> hasTransparency, originalBuffer |-> originalBuffer,
      threw |-> threw ]

convertToSupportedFormat(imageBuffer, filename) ==
    LET ext  == toLowerCase(extname(filename))
        meta == sharpDecode(imageBuffer)
    IN  IF ext \in {DotJpg, DotJpeg} THEN
            ConvertResult(imageBuffer, filename, FALSE, FALSE, << >>, FALSE)
        ELSE IF ~ meta.ok THEN
            ConvertResult(<< >>, << >>, FALSE, FALSE, << >>, TRUE)
        ELSE IF ext = DotPng THEN
            IF meta.hasAlpha
            THEN ConvertResult(sharpFlattenPng(imageBuffer), filename, TRUE, TRUE,
                               << imageBuffer >>, FALSE)
            ELSE ConvertResult(imageBuffer, filename, FALSE, FALSE, << >>, FALSE)
        ELSE
            ConvertResult(sharpFlattenPng(imageBuffer), basename(filename, ext) \o DotPng,
                          TRUE, meta.hasAlpha,
                          IF meta.hasAlpha THEN << imageBuffer >> ELSE << >>, FALSE)

\* -------------------------------------------------------------------- JSON
\* JSON values of a response object
JBool(b) == << "bool", b >>
JStr(s)  == << "str", s >>

EmptyObject == [ k \in {} |-> JBool(FALSE) ]

\* {...a, ...b}
Spread(a, b) ==
    [ k \in (DOMAIN a) \cup (DOMAIN b) |-> IF k \in DOMAIN b THEN b[k] ELSE a[k] ]

\* texts of the catalogue
TxtPlain == << "D", "o", "n", "e" >>
TxtYes   == << "Y", "e", "s", "." >>
TxtNo    == << "N", "o" >>
TxtEyes  == << "E", "Y", "E", "S" >>
TxtNumber == << "4", "2" >>
TxtNull  == << "n", "u", "l", "l" >>

TxtJson ==
    << "{", "\"", "h", "a", "s", "W", "a", "t", "e", "r", "m", "a", "r", "k", "\"", ":",
       "t", "r", "u", "e", ",", "\"", "w", "a", "t", "e", "r", "m", "a", "r", "k", "R",
       "e", "m", "o", "v", "e", "d", "\"", ":", "f", "a", "l", "s", "e", ",", "\"", "e",
       "x", "p", "l", "a", "n", "a", "t", "i", "o", "n", "\"", ":", "\"", "l", "o", "g",
       "o", "\"", "}" >>

TxtJsonOverride ==
    << "{", "\"", "s", "u", "c", "c", "e", "s", "s", "\"", ":", "f", "a", "l", "s", "e",
       ",", "\"", "t", "e", "x", "t", "\"", ":", "\"", "\"", ",", "\"", "i", "m", "a", "g",
       "e", "\"", ":", "\"", "A", "A", "=", "=", "\"", ",", "\"", "m", "i", "m", "e", "T",
       "y", "p", "e", "\"", ":", "\"", "x", "\"", "}" >>

TxtJsonClaim ==
    << "{", "\"", "w", "a", "t", "e", "r", "m", "a", "r", "k", "R", "e", "m", "o", "v",
       "e", "d", "\"", ":", "t", "r", "u", "e", "}" >>

TxtDetectJson ==
    << "{", "\"", "h", "a", "s", "W", "a", "t", "e", "r", "m", "a", "r", "k", "\"", ":",
       "f", "a", "l", "s", "e", ",", "\"", "e", "x", "p", "l", "a", "n", "a", "t", "i",
       "o", "n", "\"", ":", "\"", "y", "e", "s", "\"", "}" >>

TxtDetectFail ==
    << "{", "\"", "s", "u", "c", "c", "e", "s", "s", "\"", ":", "f", "a", "l", "s", "e",
       "}" >>

TxtDetectWord ==
    << "{", "\"", "h", "a", "s", "W", "a", "t", "e", "r", "m", "a", "r", "k", "\"", ":",
       "\"", "n", "o", "\"", "}" >>

\* JSON.parse on the catalogue's texts: << >> when it throws, otherwise the
\* own properties of the value (none for a number or null)
JSONparse(t) ==
    IF t = TxtJson THEN
        << [ hasWatermark |-> JBool(TRUE), watermarkRemoved |-> JBool(FALSE),
             explanation |-> JStr(<< "l", "o", "g", "o" >>) ] >>
    ELSE IF t = TxtJsonOverride THEN
        << [ success |-> JBool(FALSE), text |-> JStr(<< >>),
             image |-> JStr(<< "A", "A", "=", "=" >>), mimeType |-> JStr(<< "x" >>) ] >>
    ELSE IF t = TxtJsonClaim THEN
        << [ watermarkRemoved |-> JBool(TRUE) ] >>
    ELSE IF t = TxtDetectJson THEN
        << [ hasWatermark |-> JBool(FALSE), explanation |-> JStr(<< "y", "e", "s" >>) ] >>
    ELSE IF t = TxtDetectFail THEN
        << [ success |-> JBool(FALSE) ] >>
    ELSE IF t = TxtDetectWord THEN
        << [ hasWatermark |-> JStr(<< "n", "o" >>) ] >>
    ELSE IF t \in {TxtNumber, TxtNull} THEN
        << EmptyObject >>
    ELSE << >>

\* --------------------------------------------------------------- constants
REMOVAL_PROMPT   == Lit("REMOVAL_PROMPT")
DETECTION_PROMPT == Lit("DETECTION_PROMPT")
uploadDir        == Lit("uploads")
processedDir     == Lit("processed")

MsgNoImage     == Lit("No image provided")
MsgInvalidType ==
    Lit("Invalid file type. Supported formats: PNG, JPG, JPEG, WebP, SVG, GIF, BMP, TIFF, AVIF")
MsgNoResult    ==
    Lit("The AI model couldn't process the image. The original image has been preserved.")
MsgBlank       ==
    Lit("The AI model returned a blank or mostly white image, indicating it removed too much content. The original image has been preserved.")
MsgProcessed   == Lit("Image processed successfully")
\* messages of errors thrown outside server.js
MsgTypeError   == Lit("TypeError")
MsgModelError  == Lit("model call failed")
MsgConvert     == Lit("Failed to convert image")

\* String(n) for n >= 0
RECURSIVE NumberToString(_)
NumberToString(n) ==
    IF n < 10 THEN << Digits[n + 1] >>
    ELSE NumberToString(n \div 10) \o << Digits[(n % 10) + 1] >>

\* path.join(dir, name) for a name without separators
JoinPath(dir, name) == dir \o << "/" >> \o name

\* fs.writeFileSync
WriteFile(fs, path, data) ==
    [ f \in (DOMAIN fs) \cup {path} |-> IF f = path THEN data ELSE fs[f] ]

InDir(dir, path) ==
    /\ Len(path) > Len(dir) + 1
    /\ SubSeq(path, 1, Len(dir) + 1) = dir \o << "/" >>

\* ------------------------------------------------------------------ inputs
Requests == 1..NReq

\* the `image` field of the form: absent, a plain string field, or a file
NoImage         == [ kind |-> "none",   name |-> << >>, data |-> << >>, str |-> << >> ]
StringField(v)  == [ kind |-> "string", name |-> << >>, data |-> << >>, str |-> v ]
FileField(n, d) == [ kind |-> "file",   name |-> n,     data |-> d,     str |-> << >> ]

\* `prompt` is << >> when the form has no such field, << text >> when it has
Request(endpoint, image, prompt) ==
    [ endpoint |-> endpoint, image |-> image, prompt |-> prompt ]

NoRequest == Request("none", NoImage, << >>)

\* a part of the model's reply
TextPart(t)    == [ text |-> t, hasInline |-> FALSE, data |-> << >> ]
ImagePart(d)   == [ text |-> << >>, hasInline |-> TRUE, data |-> d ]

\* a reply of the removal model: the call throws, the reply has no
\* candidates, its first candidate has no content, or it has parts
Reply(kind, parts) == [ kind |-> kind, parts |-> parts ]
NoReply == Reply("none", << >>)

\* ------------------------------------------------------------------- state
VARIABLES
    pc,     \* where each request's handler is suspended
    req,    \* the request each handler serves
    loc,    \* the handler's local variables
    sent,   \* the parts of the model call each handler made
    reply,  \* the model's reply to it
    resp,   \* the JSON body each handler answered with
    files,  \* the file system: path -> contents
    now     \* Date.now()

vars == << pc, req, loc, sent, reply, resp, files, now >>

NoLocals ==
    [ sanitizedFilename  |-> << >>,
      timestamp          |-> 0,
      originalImageData  |-> << >>,
      conv               |-> ConvertResult(<< >>, << >>, FALSE, FALSE, << >>, FALSE),
      tempPath           |-> << >>,
      textResponse       |-> << >>,
      jsonResponse       |-> << >>,
      processedImageData |-> << >>,
      imageReturned      |-> FALSE,
      processedPath      |-> << >> ]

NoCall == [ made |-> FALSE, model |-> "", prompt |-> << >>, data |-> << >>, mimeType |-> << >> ]

ModelCall(model, prompt, imageBuffer, filename) ==
    [ made |-> TRUE, model |-> model, prompt |-> prompt,
      data |-> toBase64(imageBuffer), mimeType |-> getMimeType(filename) ]

Init ==
    /\ pc = [ r \in Requests |-> "idle" ]
    /\ req = [ r \in Requests |-> NoRequest ]
    /\ loc = [ r \in Requests |-> NoLocals ]
    /\ sent = [ r \in Requests |-> NoCall ]
    /\ reply = [ r \in Requests |-> NoReply ]
    /\ resp = [ r \in Requests |-> EmptyObject ]
    /\ files = [ f \in {} |-> << >> ]
    /\ now = 0

ErrorBody(message) == [ success |-> JBool(FALSE), error |-> JStr(message) ]

\* return c.json(body)
Answer(r, body) ==
    /\ resp' = [ resp EXCEPT ![r] = body ]
    /\ pc' = [ pc EXCEPT ![r] = "done" ]

\* ----------------------------------------------------------------- handlers
\* a request arrives; its handler starts and awaits c.req.formData()
Arrive(r, inputs) ==
    /\ pc[r] = "idle"
    /\ \E q \in inputs : req' = [ req EXCEPT ![r] = q ]
    /\ pc' = [ pc EXCEPT ![r] = "formData" ]
    /\ UNCHANGED << loc, sent, reply, resp, files, now >>

\* ValidationError with the file-type check made first
ValidationErrorTypeFirst(image) ==
    IF ~ isValidImageType(image.name) THEN MsgInvalidType
    ELSE IF image.kind = "none" \/ (image.kind = "string" /\ ~ Truthy(image.str))
    THEN MsgNoImage
    ELSE << >>

\* the checks both handlers make on the `image` field; "" when it passes
ValidationError(image) ==
    IF image.kind = "none" \/ (image.kind = "string" /\ ~ Truthy(image.str))
    THEN MsgNoImage
    ELSE IF image.kind = "string" THEN MsgTypeError
    ELSE IF ~ isValidImageType(image.name) THEN MsgInvalidType
    ELSE << >>

\* /remove-watermark from formData() to the await of image.arrayBuffer()
RemoveValidate(r) ==
    /\ pc[r] = "formData"
    /\ req[r].endpoint = "remove"
    /\ LET image == req[r].image
           err   == ValidationError(image)
       IN  IF Truthy(err)
           THEN /\ Answer(r, ErrorBody(err))
                /\ UNCHANGED << loc, now >>
           ELSE /\ \E t \in now..MaxTime :
                     /\ now' = t
                     /\ loc' = [ loc EXCEPT ![r].sanitizedFilename = sanitizeFilename(image.name),
                                            ![r].timestamp = t ]
                /\ pc' = [ pc EXCEPT ![r] = "arrayBuffer" ]
                /\ UNCHANGED resp
    /\ UNCHANGED << req, sent, reply, files >>

\* /detect-watermark from formData() to the await of image.arrayBuffer()
DetectValidate(r) ==
    /\ pc[r] = "formData"
    /\ req[r].endpoint = "detect"
    /\ LET err == ValidationError(req[r].image)
       IN  IF Truthy(err)
           THEN Answer(r, ErrorBody(err))
           ELSE /\ pc' = [ pc EXCEPT ![r] = "arrayBuffer" ]
                /\ UNCHANGED resp
    /\ UNCHANGED << req, loc, sent, reply, files, now >>

\* ReadBody with originalImageData and the conversion's result kept in
\* variables that all handlers share
ReadBodyShared(r) ==
    /\ pc[r] = "arrayBuffer"
    /\ loc' = [ q \in Requests |->
                 [ loc[q] EXCEPT !.originalImageData = req[r].image.data,
                                 !.conv = convertToSupportedFormat(req[r].image.data,
                                                                   req[r].image.name) ] ]
    /\ pc' = [ pc EXCEPT ![r] = "convert" ]
    /\ UNCHANGED << req, sent, reply, resp, files, now >>

\* both handlers: the upload's bytes arrive and the conversion is awaited
ReadBody(r) ==
    /\ pc[r] = "arrayBuffer"
    /\ loc' = [ loc EXCEPT ![r].originalImageData = req[r].image.data,
                           ![r].conv = convertToSupportedFormat(req[r].image.data,
                                                                req[r].image.name) ]
    /\ pc' = [ pc EXCEPT ![r] = "convert" ]
    /\ UNCHANGED << req, sent, reply, resp, files, now >>

\* the prompt /remove-watermark passes to the model
RemovalPromptOf(request) == REMOVAL_PROMPT

\* RemoveCallModel with the temp file written before the conversion's outcome
\* is looked at
RemoveCallModelWriteFirst(r) ==
    /\ pc[r] = "convert"
    /\ req[r].endpoint = "remove"
    /\ LET tempPath == JoinPath(uploadDir,
                            Lit("temp_") \o NumberToString(loc[r].timestamp)
                                \o Lit("_") \o loc[r].sanitizedFilename)
       IN  /\ files' = WriteFile(files, tempPath, loc[r].originalImageData)
           /\ IF loc[r].conv.threw
              THEN /\ Answer(r, ErrorBody(MsgConvert))
                   /\ UNCHANGED << loc, sent >>
              ELSE /\ loc' = [ loc EXCEPT ![r].tempPath = tempPath ]
                   /\ sent' = [ sent EXCEPT ![r] =
                                  ModelCall("gemini-2.0-flash-exp-image-generation",
                                            RemovalPromptOf(req[r]),
                                            loc[r].conv.buffer, loc[r].conv.filename) ]
                   /\ pc' = [ pc EXCEPT ![r] = "model" ]
                   /\ UNCHANGED resp
    /\ UNCHANGED << req, reply, now >>

\* /remove-watermark from the conversion's result to the await of the model
RemoveCallModel(r) ==
    /\ pc[r] = "convert"
    /\ req[r].endpoint = "remove"
    /\ IF loc[r].conv.threw
       THEN /\ Answer(r, ErrorBody(MsgConvert))
            /\ UNCHANGED << loc, sent, files >>
       ELSE LET tempPath == JoinPath(uploadDir,
                                Lit("temp_") \o NumberToString(loc[r].timestamp)
                                    \o Lit("_") \o loc[r].sanitizedFilename)
            IN  /\ files' = WriteFile(files, tempPath, loc[r].originalImageData)
                /\ loc' = [ loc EXCEPT ![r].tempPath = tempPath ]
                /\ sent' = [ sent EXCEPT ![r] =
                       ModelCall("gemini-2.0-flash-exp-image-generation",
                                 RemovalPromptOf(req[r]),
                                 loc[r].conv.buffer, loc[r].conv.filename) ]
                /\ pc' = [ pc EXCEPT ![r] = "model" ]
                /\ UNCHANGED resp
    /\ UNCHANGED << req, reply, now >>

\* /detect-watermark from the conversion's result to the await of the model
DetectCallModel(r) ==
    /\ pc[r] = "convert"
    /\ req[r].endpoint = "detect"
    /\ IF loc[r].conv.threw
       THEN /\ Answer(r, ErrorBody(MsgConvert))
            /\ UNCHANGED sent
       ELSE /\ sent' = [ sent EXCEPT ![r] =
                   ModelCall("gemini-1.5-flash-8b", DETECTION_PROMPT,
                             loc[r].conv.buffer, loc[r].conv.filename) ]
            /\ pc' = [ pc EXCEPT ![r] = "model" ]
            /\ UNCHANGED resp
    /\ UNCHANGED << req, loc, reply, files, now >>

\* detectWatermarkWithGemini after the model's text has arrived
DetectionResult(text) ==
    LET parsed == JSONparse(text)
    IN  IF parsed # << >> THEN parsed[1]
        ELSE [ hasWatermark |-> JBool(includes(toLowerCase(text), << "y", "e", "s" >>)),
               explanation  |-> JStr(text) ]

\* /detect-watermark from the model's reply to the response
DetectReply(r, replies) ==
    /\ pc[r] = "model"
    /\ req[r].endpoint = "detect"
    /\ \E m \in replies :
        /\ reply' = [ reply EXCEPT ![r] = m ]
        /\ IF m.kind = "throw"
           THEN Answer(r, ErrorBody(MsgModelError))
           ELSE Answer(r, Spread([ success |-> JBool(TRUE) ],
                                 DetectionResult(m.parts[1].text)))
    /\ UNCHANGED << req, loc, sent, files, now >>

\* one turn of the loop over response.candidates[0].content.parts
ProcessPart(part, L) ==
    IF Truthy(part.text) THEN
        [ L EXCEPT !.textResponse = part.text,
                   !.jsonResponse = IF JSONparse(part.text) # << >>
                                    THEN JSONparse(part.text) ELSE @ ]
    ELSE IF part.hasInline /\ Truthy(part.data) THEN
        [ L EXCEPT !.processedImageData = << fromBase64(part.data) >>,
                   !.imageReturned = TRUE ]
    ELSE L

RECURSIVE ProcessParts(_, _)
ProcessParts(parts, L) ==
    IF parts = << >> THEN L
    ELSE ProcessParts(Tail(parts), ProcessPart(Head(parts), L))

\* the fallback read back from the temp file in uploads/
FallbackImageFromDisk(r) == files[loc[r].tempPath]

\* the image the handler of r falls back to: processedImageData = originalImageData
FallbackImage(r) == loc[r].originalImageData

\* if (!processedImageData) { ... }, with `original` the image fallen back to
UseOriginalIfNoImage(L, original) ==
    IF L.processedImageData = << >> THEN
        [ L EXCEPT !.processedImageData = << original >>,
                   !.imageReturned = FALSE,
                   !.textResponse = IF ~ Truthy(@) THEN MsgNoResult ELSE @ ]
    ELSE L

\* ResultBody with the model's JSON spread last
ResultBodyJsonLast(L, outputMimeType) ==
    Spread(Spread([ success  |-> JBool(TRUE),
                    text     |-> JStr(IF Truthy(L.textResponse)
                                      THEN L.textResponse ELSE MsgProcessed),
                    image    |-> JStr(toBase64(L.processedImageData[1])),
                    mimeType |-> JStr(outputMimeType) ],
                  [ watermarkRemoved |-> JBool(L.imageReturned) ]),
           IF L.jsonResponse = << >> THEN EmptyObject ELSE L.jsonResponse[1])

\* the body of the successful response
ResultBody(L, outputMimeType) ==
    Spread(Spread([ success  |-> JBool(TRUE),
                    text     |-> JStr(IF Truthy(L.textResponse)
                                      THEN L.textResponse ELSE MsgProcessed),
                    image    |-> JStr(toBase64(L.processedImageData[1])),
                    mimeType |-> JStr(outputMimeType) ],
                  IF L.jsonResponse = << >> THEN EmptyObject ELSE L.jsonResponse[1]),
           [ watermarkRemoved |-> JBool(L.imageReturned) ])

\* the name of the file written to processed/
ProcessedFilename(L) ==
    IF L.conv.converted \/ L.conv.hasTransparency
    THEN basename(L.sanitizedFilename, extname(L.sanitizedFilename)) \o DotPng
    ELSE L.sanitizedFilename

OutputMimeType(L) ==
    IF L.conv.converted \/ L.conv.hasTransparency
    THEN Lit("image/png")
    ELSE getMimeType(L.sanitizedFilename)

\* what happens to the temp file once the result is saved
CleanUp(fs, tempPath) == fs

\* /remove-watermark from the output filename to the response, with locals L
Finish(r, L) ==
    LET processedPath == JoinPath(processedDir,
                             Lit("processed_") \o NumberToString(L.timestamp)
                                 \o Lit("_") \o ProcessedFilename(L))
    IN  /\ files' = CleanUp(WriteFile(files, processedPath, L.processedImageData[1]),
                            L.tempPath)
        /\ loc' = [ loc EXCEPT ![r] = [ L EXCEPT !.processedPath = processedPath ] ]
        /\ Answer(r, ResultBody(L, OutputMimeType(L)))

\* /remove-watermark from the model's reply to the await of isImageMostlyWhite
\* (or, without an image, to the response)
RemoveReply(r, replies) ==
    /\ pc[r] = "model"
    /\ req[r].endpoint = "remove"
    /\ \E m \in replies :
        /\ reply' = [ reply EXCEPT ![r] = m ]
        /\ IF m.kind = "throw" THEN
               /\ Answer(r, ErrorBody(MsgModelError))
               /\ UNCHANGED << loc, files >>
           ELSE IF m.kind = "noContent" THEN
               /\ Answer(r, ErrorBody(MsgTypeError))
               /\ UNCHANGED << loc, files >>
           ELSE
               LET L == UseOriginalIfNoImage(
                            ProcessParts(IF m.kind = "parts" THEN m.parts ELSE << >>,
                                         loc[r]),
                            FallbackImage(r))
               IN  IF L.imageReturned
                   THEN /\ loc' = [ loc EXCEPT ![r] = L ]
                        /\ pc' = [ pc EXCEPT ![r] = "white" ]
                        /\ UNCHANGED << resp, files >>
                   ELSE Finish(r, L)
    /\ UNCHANGED << req, sent, now >>

\* the thresholds the handler passes, in thousandths
WhiteThreshold(name) ==
    IF toLowerCase(extname(name)) \in {DotJpg, DotJpeg} THEN 999 ELSE 990

\* if (isMostlyWhite) { ... }, with `original` the image fallen back to
RevertIfWhite(L, original, isMostlyWhite) ==
    IF isMostlyWhite THEN
        [ L EXCEPT !.processedImageData = << original >>,
                   !.imageReturned = FALSE,
                   !.textResponse = IF ~ Truthy(@) THEN MsgBlank ELSE @ ]
    ELSE L

\* ShouldReapply without the test of imageReturned
ShouldReapplyAnyResult(L) ==
    L.conv.hasTransparency /\ L.conv.originalBuffer # << >>

\* if (hasTransparency && imageReturned && originalBuffer)
ShouldReapply(L) ==
    L.conv.hasTransparency /\ L.imageReturned /\ L.conv.originalBuffer # << >>

\* /remove-watermark from isImageMostlyWhite's verdict to the await of
\* reapplyTransparency (or, without transparency to reapply, to the response)
RemoveAfterWhiteCheck(r) ==
    /\ pc[r] = "white"
    /\ LET t == WhiteThreshold(req[r].image.name)
           L == RevertIfWhite(loc[r], FallbackImage(r),
                    isImageMostlyWhite(loc[r].processedImageData[1], t, t))
       IN  IF ShouldReapply(L)
           THEN /\ loc' = [ loc EXCEPT ![r] = L ]
                /\ pc' = [ pc EXCEPT ![r] = "alpha" ]
                /\ UNCHANGED << resp, files >>
           ELSE Finish(r, L)
    /\ UNCHANGED << req, sent, reply, now >>

\* /remove-watermark from reapplyTransparency's result to the response
RemoveAfterReapply(r) ==
    /\ pc[r] = "alpha"
    /\ Finish(r, [ loc[r] EXCEPT !.processedImageData =
                       << reapplyTransparency(loc[r].processedImageData[1],
                                              loc[r].conv.originalBuffer[1]) >> ])
    /\ UNCHANGED << req, sent, reply, now >>

\* one step of the handler of request r
Handle(r) ==
    \/ RemoveValidate(r)
    \/ DetectValidate(r)
    \/ ReadBody(r)
    \/ RemoveCallModel(r)
    \/ DetectCallModel(r)
    \/ RemoveAfterWhiteCheck(r)
    \/ RemoveAfterReapply(r)

\* ------------------------------------------------------------ input sets
NameA_png  == << "a", ".", "p", "n", "g" >>
NameA_PNG  == << "a", ".", "P", "N", "G" >>
NameA_jpg  == << "a", ".", "j", "p", "g" >>
NameA_Jpeg == << "a", ".", "J", "p", "e", "g" >>
NameA_webp == << "a", ".", "w", "e", "b", "p" >>
NameB_GIF  == << "b", ".", "G", "I", "F" >>
NameA_txt  == << "a", ".", "t", "x", "t" >>
NameNoExt  == << "p", "n", "g" >>
NameDotPng == << ".", "p", "n", "g" >>
NamePngExe == << "a", ".", "p", "n", "g", ".", "e", "x", "e" >>
NameUp     == << ".", ".", "/", "x", " ", "y", ".", "t", "i", "f" >>
NameBang   == << "!", ".", "b", "m", "p" >>
NameC_svg  == << "c", ".", "s", "v", "g" >>
NameD_TIFF == << "d", ".", "T", "I", "F", "F" >>
NameE_avif == << "e", ".", "a", "v", "i", "f" >>

CustomPrompt == << "e", "r", "a", "s", "e" >>

RichNames ==
    { NameA_png, NameA_PNG, NameA_jpg, NameA_Jpeg, NameA_webp, NameB_GIF,
      NameA_txt, NameNoExt, NameDotPng, NamePngExe, NameUp, NameBang,
      NameC_svg, NameD_TIFF, NameE_avif }

RichImages ==
    { NoImage, StringField(<< >>), StringField(<< "x" >>) }
    \cup { FileField(n, d) : n \in RichNames, d \in {ImgOpaque, ImgAlpha, ImgGarbage} }

RichRequests ==
    { Request("remove", i, p) : i \in RichImages, p \in { << >>, << CustomPrompt >> } }
    \cup { Request("detect", i, << >>) : i \in RichImages }

RichParts ==
    { TextPart(TxtPlain), TextPart(TxtJson), TextPart(TxtJsonOverride),
      TextPart(TxtJsonClaim), ImagePart(<< >>), ImagePart(<< "H", "g" >>) }
    \cup { ImagePart(toBase64(b)) :
             b \in { ImgClean, ImgWide, ImgWider, ImgWhite, ImgNearWhite, ImgPale,
                     ImgGarbage } }

RichReplies ==
    { Reply("throw", << >>), Reply("blocked", << >>), Reply("noContent", << >>) }
    \cup { Reply("parts", << p >>) : p \in RichParts }
    \cup { Reply("parts", << p, q >>) : p \in RichParts, q \in RichParts }

RichDetectReplies ==
    { Reply("throw", << >>) }
    \cup { Reply("text", << TextPart(t) >>) :
             t \in { TxtYes, TxtNo, TxtEyes, TxtDetectJson, TxtDetectFail, TxtDetectWord,
                     TxtNull, TxtNumber, << >> } }

SmallRequests ==
    { Request("remove", FileField(NameA_png, ImgOpaque), << >>),
      Request("remove", FileField(NameA_png, ImgAlpha), << >>),
      Request("remove", NoImage, << >>),
      Request("detect", FileField(NameA_png, ImgOpaque), << >>) }

SmallReplies ==
    { Reply("throw", << >>),
      Reply("parts", << ImagePart(toBase64(ImgClean)) >>),
      Reply("parts", << TextPart(TxtPlain) >>) }

SmallDetectReplies ==
    { Reply("throw", << >>), Reply("text", << TextPart(TxtYes) >>) }

\* ---------------------------------------------------------- specifications
\* several requests in flight, their handlers interleaved at the awaits
Next ==
    \E r \in Requests :
        \/ Arrive(r, SmallRequests)
        \/ Handle(r)
        \/ RemoveReply(r, SmallReplies)
        \/ DetectReply(r, SmallDetectReplies)

Spec == Init /\ [][Next]_vars

\* one request, over the whole catalogue of uploads and replies
NextOne ==
    \/ Arrive(1, RichRequests)
    \/ Handle(1)
    \/ RemoveReply(1, RichReplies)
    \/ DetectReply(1, RichDetectReplies)

SpecOne == Init /\ [][NextOne]_vars

\* one removal, over every upload filename made of a stem of up to MaxStem
\* characters of NameAlphabet and an accepted extension
NameAlphabet == { "a", "-", ".", "/" }

GeneratedNames ==
    { stem \o ext : stem \in UNION { [ 1..k -> NameAlphabet ] : k \in 0..MaxStem },
                    ext \in { DotPng, << ".", "G", "I", "F" >> } }

NameRequests ==
    { Request("remove", FileField(n, ImgOpaque), << >>) : n \in GeneratedNames }

NameReplies ==
    { Reply("parts", << ImagePart(toBase64(ImgClean)) >>),
      Reply("parts", << TextPart(TxtPlain) >>) }

NextNames ==
    \/ Arrive(1, NameRequests)
    \/ RemoveValidate(1)
    \/ ReadBody(1)
    \/ RemoveCallModel(1)
    \/ RemoveReply(1, NameReplies)
    \/ RemoveAfterWhiteCheck(1)

SpecNames == Init /\ [][NextNames]_vars

\* ------------------------------------------------------------------ claims
IsRemove(r) == req[r].endpoint = "remove"
IsDetect(r) == req[r].endpoint = "detect"

\* the handler of r reached its result: it wrote to processed/ and answered
Succeeded(r) == pc[r] = "done" /\ loc[r].processedPath # << >>

\* the parts of the model's reply to r
PartsOf(r) == IF reply[r].kind = "parts" THEN reply[r].parts ELSE << >>

ImageParts(parts) ==
    { i \in DOMAIN parts : parts[i].hasInline /\ Truthy(parts[i].data)
                           /\ ~ Truthy(parts[i].text) }
TextParts(parts) == { i \in DOMAIN parts : Truthy(parts[i].text) }

Last(S) == CHOOSE i \in S : \A j \in S : j <= i

LastImage(parts) == fromBase64(parts[Last(ImageParts(parts))].data)
LastText(parts)  == parts[Last(TextParts(parts))].text

\* the blank-image check's verdict on `bytes` for an upload called `name`
JudgedBlank(name, bytes) ==
    isImageMostlyWhite(bytes, WhiteThreshold(name), WhiteThreshold(name))

\* C1, as stated: once a request's handler has started and until it has
\* answered, no step of another request's handler runs.
C1_OneAtATime ==
    [][ \A r, q \in Requests :
          (r # q /\ pc[r] \notin {"idle", "done"} /\ pc[q] # "idle")
              => pc'[q] = pc[q] ]_vars

\* C1, amended: handlers interleave at their awaits, but the steps run one at
\* a time: a step of one request's handler changes nothing of another
\* request's position, locals, model call, reply or response.
C1_StepsOfOneRequest ==
    [][ \A r, q \in Requests :
          (r # q /\ pc'[q] # pc[q])
              => /\ pc'[r] = pc[r]
                 /\ req'[r] = req[r]
                 /\ loc'[r] = loc[r]
                 /\ sent'[r] = sent[r]
                 /\ reply'[r] = reply[r]
                 /\ resp'[r] = resp[r] ]_vars

\* two handlers are suspended between their first step and their response,
\* each with locals of its own
C1_TwoInFlight ==
    \E r, q \in Requests :
        /\ r # q
        /\ pc[r] = "model"
        /\ pc[q] \in {"convert", "model", "white"}
        /\ loc[r].originalImageData # loc[q].originalImageData

\* C2: the text part sent to the removal model is the request's `prompt`
\* field when it has one, and the default removal prompt only when it has none.
C2_PromptForwarded ==
    \A r \in Requests :
        (IsRemove(r) /\ sent[r].made)
            => sent[r].prompt = IF req[r].prompt # << >> THEN req[r].prompt[1]
                                ELSE REMOVAL_PROMPT

\* C3: for a valid upload without alpha whose reply has an image part that is
\* not judged blank, `image` is the base64 of the last image part's bytes and
\* `text` is the last text part when there is one.
C3_ModelImageReturned ==
    \A r \in Requests :
        LET parts == PartsOf(r) IN
        ( /\ IsRemove(r)
          /\ Succeeded(r)
          /\ ~ sharpDecode(req[r].image.data).hasAlpha
          /\ ImageParts(parts) # {}
          /\ ~ JudgedBlank(req[r].image.name, LastImage(parts)) )
            => /\ resp[r].image = JStr(toBase64(LastImage(parts)))
               /\ TextParts(parts) # {} => resp[r].text = JStr(LastText(parts))

\* C4: every removal that finishes without an exception answers success =
\* true, a text that is the model's last text or a non-empty default, and as
\* image the base64 of the bytes written to processed/.
C4_ResultShape ==
    \A r \in Requests :
        LET parts == PartsOf(r) IN
        Succeeded(r)
            => /\ resp[r].success = JBool(TRUE)
               /\ resp[r].text[1] = "str"
               /\ IF TextParts(parts) # {}
                  THEN resp[r].text = JStr(LastText(parts))
                  ELSE Truthy(resp[r].text[2])
               /\ resp[r].image = JStr(toBase64(files[loc[r].processedPath]))

\* C5: a detection for which the model returned text answers success = true
\* and a boolean hasWatermark: the parsed JSON's value, or, for text that is
\* not JSON, whether the text contains 'yes' in any case, with the text as
\* explanation.
C5_DetectShape ==
    \A r \in Requests :
        (IsDetect(r) /\ pc[r] = "done" /\ reply[r].kind = "text")
            => LET t      == reply[r].parts[1].text
                   parsed == JSONparse(t)
               IN  /\ resp[r].success = JBool(TRUE)
                   /\ "hasWatermark" \in DOMAIN resp[r]
                   /\ resp[r].hasWatermark[1] = "bool"
                   /\ IF parsed = << >>
                      THEN /\ resp[r].hasWatermark
                                = JBool(includes(toLowerCase(t), << "y", "e", "s" >>))
                           /\ resp[r].explanation = JStr(t)
                      ELSE /\ "hasWatermark" \in DOMAIN parsed[1]
                           /\ resp[r].hasWatermark = parsed[1].hasWatermark

\* the extensions C6 lists
ClaimedExtensions ==
    { << ".","p","n","g" >>, << ".","j","p","g" >>, << ".","j","p","e","g" >>,
      << ".","w","e","b","p" >>, << ".","s","v","g" >>, << ".","g","i","f" >>,
      << ".","b","m","p" >>, << ".","t","i","f","f" >>, << ".","t","i","f" >>,
      << ".","a","v","i","f" >> }

\* the handler of r went on past the checks of the `image` field
PassedValidation(r) ==
    pc[r] # "done" \/ resp[r] \notin { ErrorBody(MsgNoImage), ErrorBody(MsgInvalidType) }

\* C6: both endpoints accept an upload exactly when its filename's extension,
\* compared case-insensitively, is one of the ten listed; any other upload is
\* answered with the 'Invalid file type' error, and a request without an
\* `image` field with 'No image provided'.
C6_Validation ==
    \A r \in Requests :
        pc[r] \notin {"idle", "formData"}
            => LET image == req[r].image
               IN  /\ image.kind = "none"
                        => pc[r] = "done" /\ resp[r] = ErrorBody(MsgNoImage)
                   /\ image.kind = "file"
                        => IF toLowerCase(extname(image.name)) \in ClaimedExtensions
                           THEN PassedValidation(r)
                           ELSE pc[r] = "done" /\ resp[r] = ErrorBody(MsgInvalidType)

\* an upload with an upper-case extension was accepted, by either endpoint,
\* and its bytes sent to the model
C6_UpperCaseAccepted ==
    \E r \in Requests :
        /\ req[r].image.kind = "file"
        /\ extname(req[r].image.name) \notin ClaimedExtensions
        /\ toLowerCase(extname(req[r].image.name)) \in ClaimedExtensions
        /\ pc[r] = "model"

\* C7: the temp file a removal wrote to uploads/ no longer exists once the
\* request has been answered.
C7_TempFileRemoved ==
    \A r \in Requests :
        (pc[r] = "done" /\ loc[r].tempPath # << >>)
            => loc[r].tempPath \notin DOMAIN files

\* the response as a function of the request and of the model's reply to it
ResponseFor(q, m) ==
    LET image == q.image
        err   == ValidationError(image)
        conv  == convertToSupportedFormat(image.data, image.name)
        t     == WhiteThreshold(image.name)
        L0    == [ NoLocals EXCEPT !.sanitizedFilename = sanitizeFilename(image.name),
                                   !.originalImageData = image.data,
                                   !.conv = conv ]
        L1    == UseOriginalIfNoImage(
                     ProcessParts(IF m.kind = "parts" THEN m.parts ELSE << >>, L0),
                     image.data)
        L2    == IF L1.imageReturned
                 THEN RevertIfWhite(L1, image.data,
                          isImageMostlyWhite(L1.processedImageData[1], t, t))
                 ELSE L1
        L3    == IF L2.conv.hasTransparency /\ L2.imageReturned
                        /\ L2.conv.originalBuffer # << >>
                 THEN [ L2 EXCEPT !.processedImageData =
                            << reapplyTransparency(L2.processedImageData[1],
                                                   L2.conv.originalBuffer[1]) >> ]
                 ELSE L2
    IN  IF Truthy(err) THEN ErrorBody(err)
        ELSE IF conv.threw THEN ErrorBody(MsgConvert)
        ELSE IF m.kind = "throw" THEN ErrorBody(MsgModelError)
        ELSE IF q.endpoint = "detect"
             THEN Spread([ success |-> JBool(TRUE) ], DetectionResult(m.parts[1].text))
        ELSE IF m.kind = "noContent" THEN ErrorBody(MsgTypeError)
        ELSE ResultBody(L3, OutputMimeType(L3))

\* C8: the response to a request is determined by the request's upload and
\* the model's reply to it alone, whatever other requests were handled before
\* it or are in flight beside it.
C8_ResponseDetermined ==
    \A r \in Requests :
        pc[r] = "done" => resp[r] = ResponseFor(req[r], reply[r])

\* a removal answered with its own upload although, while it was in flight,
\* another request had overwritten its temp file in uploads/ with other bytes
C8_OverwrittenTempFile ==
    \E r, q \in Requests :
        /\ r # q
        /\ Succeeded(r)
        /\ loc[q].tempPath = loc[r].tempPath
        /\ files[loc[r].tempPath] # req[r].image.data
        /\ resp[r].watermarkRemoved = JBool(FALSE)
        /\ resp[r].image = JStr(toBase64(req[r].image.data))

\* C9: in a successful removal response watermarkRemoved is true exactly when
\* the reply had an image part with data that the blank-image check did not
\* flag, whatever watermarkRemoved the model's JSON text carries.
C9_WatermarkRemovedFlag ==
    \A r \in Requests :
        LET parts == PartsOf(r) IN
        Succeeded(r)
            => resp[r].watermarkRemoved =
                   JBool( /\ ImageParts(parts) # {}
                          /\ ~ JudgedBlank(req[r].image.name, LastImage(parts)) )

\* the model's JSON said watermarkRemoved: true, and the response says false
C9_JsonClaimIgnored ==
    \E r \in Requests :
        /\ Succeeded(r)
        /\ loc[r].jsonResponse # << >>
        /\ "watermarkRemoved" \in DOMAIN loc[r].jsonResponse[1]
        /\ loc[r].jsonResponse[1].watermarkRemoved = JBool(TRUE)
        /\ resp[r].watermarkRemoved = JBool(FALSE)

\* C10: when the model returns no image part, or one the blank-image check
\* flags, the removal returns and writes to processed/ exactly the uploaded
\* bytes, with watermarkRemoved = false and a non-empty text.
C10_FallbackToUpload ==
    \A r \in Requests :
        LET parts == PartsOf(r) IN
        ( /\ Succeeded(r)
          /\ \/ ImageParts(parts) = {}
             \/ JudgedBlank(req[r].image.name, LastImage(parts)) )
            => /\ files[loc[r].processedPath] = req[r].image.data
               /\ resp[r].watermarkRemoved = JBool(FALSE)
               /\ resp[r].image = JStr(toBase64(req[r].image.data))
               /\ resp[r].text[1] = "str"
               /\ Truthy(resp[r].text[2])

\* C11: when the model call of a removal throws, the response is
\* success=false with the error's message, nothing is in processed/ for the
\* request and the temp file it wrote to uploads/ is still there with the
\* uploaded bytes; when the conversion throws, the response is the conversion
\* error and neither directory has a file.
C11_FailureLeavesFiles ==
    \A r \in Requests :
        (IsRemove(r) /\ pc[r] = "done")
            => /\ (sent[r].made /\ reply[r].kind = "throw")
                     => /\ resp[r] = ErrorBody(MsgModelError)
                        /\ loc[r].processedPath = << >>
                        /\ \A p \in DOMAIN files : ~ InDir(processedDir, p)
                        /\ InDir(uploadDir, loc[r].tempPath)
                        /\ DOMAIN files = { loc[r].tempPath }
                        /\ files[loc[r].tempPath] = req[r].image.data
               /\ loc[r].conv.threw
                     => /\ resp[r] = ErrorBody(MsgConvert)
                        /\ ~ sent[r].made
                        /\ DOMAIN files = {}

\* a removal whose model call threw has answered, its temp file in uploads/
C11_ModelThrewTempKept ==
    \E r \in Requests :
        /\ IsRemove(r) /\ pc[r] = "done"
        /\ reply[r].kind = "throw"
        /\ resp[r] = ErrorBody(MsgModelError)
        /\ loc[r].tempPath \in DOMAIN files

\* the request of r has no `image` field, or a file whose extension is not
\* a supported one
RejectedByValidation(r) ==
    \/ req[r].image.kind = "none"
    \/ /\ req[r].image.kind = "file"
       /\ toLowerCase(extname(req[r].image.name)) \notin ClaimedExtensions

\* C12: the first step of the handler of a request without an `image` field,
\* or with an unsupported extension, answers it with the validation error and
\* changes nothing else: no model call, no locals, no file created or changed;
\* a request without `image` gets 'No image provided', so that check is made
\* before the file-type check.
C12_RejectionHasNoEffect ==
    [][ \A r \in Requests :
          (pc[r] = "formData" /\ pc'[r] # pc[r] /\ RejectedByValidation(r))
              => /\ pc'[r] = "done"
                 /\ resp'[r] = ErrorBody(IF req[r].image.kind = "none"
                                         THEN MsgNoImage ELSE MsgInvalidType)
                 /\ files' = files
                 /\ sent' = sent /\ ~ sent[r].made
                 /\ loc' = loc /\ loc[r] = NoLocals ]_vars

\* an upload with bytes and an unsupported extension was rejected, with no
\* model call and no file
C12_RejectedUpload ==
    \E r \in Requests :
        /\ pc[r] = "done"
        /\ req[r].image.kind = "file" /\ req[r].image.data # << >>
        /\ resp[r] = ErrorBody(MsgInvalidType)
        /\ ~ sent[r].made
        /\ DOMAIN files = {}

\* the upload of r has an alpha channel and is not a .jpg/.jpeg, and the
\* model's reply has an image that the blank-image check does not flag
ReapplyDue(r) ==
    LET image == req[r].image
        parts == PartsOf(r)
    IN  /\ sharpDecode(image.data).ok
        /\ sharpDecode(image.data).hasAlpha
        /\ toLowerCase(extname(image.name)) \notin {DotJpg, DotJpeg}
        /\ ImageParts(parts) # {}
        /\ ~ JudgedBlank(image.name, LastImage(parts))

\* C13: a removal awaits reapplyTransparency exactly when the upload has an
\* alpha channel, is not a .jpg/.jpeg, and the model returned an image that
\* was not flagged blank; the result written is then reapplyTransparency of
\* the model's image and the uploaded bytes. A removal that answers without
\* that step writes the model's image as it is, or the upload when it fell
\* back to it.
C13_ReapplyExactlyWhenDue ==
    [][ \A r \in Requests :
          LET written == files'[loc'[r].processedPath]
              upload  == req[r].image.data
          IN  /\ (pc'[r] = "alpha" /\ pc[r] # "alpha")
                    => pc[r] = "white" /\ ReapplyDue(r)
              /\ (pc[r] = "alpha" /\ pc'[r] # "alpha")
                    => /\ pc'[r] = "done"
                       /\ written = reapplyTransparency(LastImage(PartsOf(r)), upload)
              /\ (pc[r] = "white" /\ pc'[r] = "done")
                    => /\ ~ ReapplyDue(r)
                       /\ written = IF JudgedBlank(req[r].image.name, LastImage(PartsOf(r)))
                                    THEN upload ELSE LastImage(PartsOf(r))
              /\ (pc[r] = "model" /\ pc'[r] = "done" /\ loc'[r].processedPath # << >>)
                    => written = upload ]_vars

\* the file in processed/ is the model's image joined with the alpha channel
\* of the uploaded bytes
C13_AlphaReapplied ==
    \E r \in Requests :
        /\ Succeeded(r)
        /\ ReapplyDue(r)
        /\ \E fit \in {2, 3, 4} :
              files[loc[r].processedPath]
                  = sharpJoinAlpha(LastImage(PartsOf(r)), req[r].image.data, fit)

\* C14: when sharp cannot decode the model's image, so that isImageMostlyWhite
\* and reapplyTransparency both fail on it, the removal still writes that
\* image to processed/ and answers success = true, watermarkRemoved = true
\* with that image.
C14_FailureKeepsModelImage ==
    \A r \in Requests :
        LET parts == PartsOf(r) IN
        ( /\ IsRemove(r)
          /\ pc[r] = "done"
          /\ ImageParts(parts) # {}
          /\ ~ sharpDecode(LastImage(parts)).ok )
            => /\ loc[r].processedPath # << >>
               /\ files[loc[r].processedPath] = LastImage(parts)
               /\ resp[r].success = JBool(TRUE)
               /\ resp[r].watermarkRemoved = JBool(TRUE)
               /\ resp[r].image = JStr(toBase64(LastImage(parts)))

\* the last component of `name` with its extension replaced by .png
WithPngExtension(name) ==
    LET comp == Component(name)
    IN  SubSeq(comp, 1, Len(comp) - Len(extname(name))) \o DotPng

\* C15: the conversion of an upload returns bytes and filename unchanged with
\* converted = false exactly for .jpg/.jpeg and for .png without alpha; for a
\* .png with alpha the white-flattened bytes under the same filename, and for
\* every other extension the white-flattened bytes under the filename with
\* its extension replaced by .png, both with converted = true;
\* hasTransparency implies converted, and originalBuffer is the uploaded
\* bytes exactly when hasTransparency.
C15_ConversionResult ==
    \A r \in Requests :
        (IsRemove(r) /\ pc[r] \in {"convert", "model", "white", "alpha", "done"}
                     /\ loc[r].originalImageData # << >> /\ ~ loc[r].conv.threw)
            => LET name     == req[r].image.name
                   data     == req[r].image.data
                   ext      == toLowerCase(extname(name))
                   hasAlpha == sharpDecode(data).ok /\ sharpDecode(data).hasAlpha
                   conv     == loc[r].conv
                   through  == ext \in {DotJpg, DotJpeg} \/ (ext = DotPng /\ ~ hasAlpha)
               IN  /\ conv.converted = ~ through
                   /\ through => conv.buffer = data /\ conv.filename = name
                   /\ ~ through => /\ conv.buffer = sharpFlattenPng(data)
                                   /\ conv.filename = IF ext = DotPng THEN name
                                                      ELSE WithPngExtension(name)
                   /\ conv.hasTransparency => conv.converted
                   /\ conv.hasTransparency = (conv.originalBuffer = << data >>)
                   /\ ~ conv.hasTransparency => conv.originalBuffer = << >>

\* C16: for a successful removal the extension of the file written to
\* processed/ and the response's mimeType agree: .png and image/png when the
\* upload was converted or had transparency; otherwise the upload's own
\* extension, with image/png for .png and image/jpeg for .jpg/.jpeg.
C16_ExtensionAndMimeTypeAgree ==
    \A r \in Requests :
        Succeeded(r)
            => LET uploadExt == extname(req[r].image.name)
                   fileExt   == extname(loc[r].processedPath)
               IN  IF loc[r].conv.converted \/ loc[r].conv.hasTransparency
                   THEN /\ fileExt = DotPng
                        /\ resp[r].mimeType = JStr(Lit("image/png"))
                   ELSE /\ fileExt = uploadExt
                        /\ toLowerCase(uploadExt) \in {DotPng, DotJpg, DotJpeg}
                        /\ resp[r].mimeType =
                               JStr(IF toLowerCase(uploadExt) = DotPng
                                    THEN Lit("image/png") ELSE Lit("image/jpeg"))

\* `name` is a base followed by one of `exts`; the base is not empty, is made
\* of letters, digits, '-' and '_', and has no leading, trailing or doubled
\* '-'; the name has no path separator
SafeStoredName(name, exts) ==
    /\ "/" \notin Range(name)
    /\ \E e \in exts :
          /\ Len(name) > Len(e)
          /\ SubSeq(name, Len(name) - Len(e) + 1, Len(name)) = e
          /\ LET base == SubSeq(name, 1, Len(name) - Len(e))
             IN  /\ \A i \in DOMAIN base :
                       base[i] \in Range(LowerLetters) \cup Range(UpperLetters)
                                       \cup Range(Digits) \cup {"-", "_"}
                 /\ base[1] # "-"
                 /\ base[Len(base)] # "-"
                 /\ \A i \in 1..(Len(base) - 1) : ~ (base[i] = "-" /\ base[i + 1] = "-")

\* `path` is <dir>/<prefix><timestamp>_<name> with a safe name
SafeStoredPath(path, dir, prefix, timestamp, exts) ==
    LET head == dir \o << "/", prefix >> \o NumberToString(timestamp) \o << "_" >>
    IN  /\ Len(path) > Len(head)
        /\ SubSeq(path, 1, Len(head)) = head
        /\ SafeStoredName(SubSeq(path, Len(head) + 1, Len(path)), exts)

\* C17: for an upload that passed the file-type check, the files written are
\* uploads/temp_<timestamp>_<name> and processed/processed_<timestamp>_<name>
\* and no other, where <name> has no path separator, ends in the upload's
\* extension (or .png, in processed/), and has a non-empty base of letters,
\* digits, '-' and '_' without leading, trailing or doubled '-'.
C17_WrittenPathsAreSafe ==
    \A r \in Requests :
        IsRemove(r)
            => LET ext == extname(req[r].image.name)
                   L   == loc[r]
               IN  /\ L.tempPath # << >>
                        => /\ L.tempPath \in DOMAIN files
                           /\ SafeStoredPath(L.tempPath, Lit("uploads"), "temp_",
                                             L.timestamp, { ext })
                   /\ L.processedPath # << >>
                        => /\ L.processedPath \in DOMAIN files
                           /\ SafeStoredPath(L.processedPath, Lit("processed"), "processed_",
                                             L.timestamp, { ext, DotPng })
                   /\ DOMAIN files \subseteq { L.tempPath, L.processedPath }

\* an upload whose filename starts with ../ and has characters that are
\* replaced was processed, and both its files are written
C17_UnsafeNameStored ==
    \E r \in Requests :
        /\ Succeeded(r)
        /\ SubSeq(req[r].image.name, 1, 3) = << ".", ".", "/" >>
        /\ loc[r].sanitizedFilename # Component(req[r].image.name)
        /\ Cardinality(DOMAIN files) = 2

====
